---- MODULE Spec2Model ----
(***************************************************************************)
(* gin-api-handler: the request adapter (api_handler.go), the business     *)
(* error value (biz_error.go) and the message tables (i18n.go).            *)
(*                                                                         *)
(* Text is modelled as a sequence of pieces (one-character strings for     *)
(* path values, locales and headers; longer pieces for fixed message       *)
(* fragments); concatenation of texts is \o.  The Chinese message texts    *)
(* of the source are written in pinyin, piece for piece.                   *)
(***************************************************************************)
EXTENDS Integers, Sequences, FiniteSets, TLC

VARIABLES
    DefaultConfig,  \* the package-level *HandlerConfig
    config,         \* the HandlerConfig the current route was registered with
    handler,        \* the closure HandlerWithCode returned (captured parameters)
    pc,             \* per request: position inside the closure
    input,          \* per request: the inbound request (header, path parameters)
    req,            \* per request: the value req := new(T) points to
    result,         \* per request: the local err / resp of the closure, the value
                    \* c.ShouldBind left in *req and the value handleFunc received
    calls,          \* per request: how often each step ran
    written,        \* per request: the envelopes c.JSON wrote, in order
    logged,         \* per request: the values the request logger received
    fnIn,           \* argument of a direct call of an exported function
    fnOut           \* its result

vars == <<DefaultConfig, config, handler, pc, input, req, result, calls,
          written, logged, fnIn, fnOut>>

handlerVars == <<DefaultConfig, config, handler, pc, input, req, result, calls,
                 written, logged>>

-----------------------------------------------------------------------------
(* Bounds of the model *)

MaxOpts == 2        \* options passed to one Handler(...) call
MaxHeaderLen == 3   \* length of the enumerated Accept-Language headers
MaxArgs == 2        \* arguments passed to one Translate call
MaxErrs == 2        \* elements of the errs slice given to NewBizErrorWithDetails

Slots == {"r1", "r2"}

-----------------------------------------------------------------------------
(* net/http status codes used by the package *)

StatusOK == 200
StatusBadRequest == 400
StatusInternalServerError == 500

(* A value of type any used as a business code: an int or a string. *)
IntCode(n) == [k |-> "int", n |-> n, s |-> ""]
StrCode(s) == [k |-> "string", n |-> 0, s |-> s]

(* A []any: nil, or a (possibly empty) sequence of elements. *)
NilSlice == [nil |-> TRUE, elems |-> <<>>]
MkSlice(s) == [nil |-> FALSE, elems |-> s]
len(sl) == Len(sl.elems)

-----------------------------------------------------------------------------
(* fmt.Sprintf for the verbs the package uses (%v and %s): the i-th verb   *)
(* is replaced by the i-th argument; a verb without argument prints        *)
(* %!v(MISSING), arguments without verb print %!(EXTRA string=a, ...).     *)

IsVerb(p) == p \in {"%v", "%s"}

RECURSIVE Extra(_, _)
Extra(args, i) ==
    IF i > Len(args) THEN <<")">>
    ELSE <<"string=">> \o args[i] \o (IF i < Len(args) THEN <<", ">> ELSE <<>>)
         \o Extra(args, i + 1)

RECURSIVE SprintfFrom(_, _, _)
SprintfFrom(format, args, i) ==
    IF format = <<>>
    THEN IF i <= Len(args) THEN <<"%!(EXTRA ">> \o Extra(args, i) ELSE <<>>
    ELSE IF IsVerb(Head(format))
         THEN (IF i <= Len(args) THEN args[i]
               ELSE <<"%!", IF Head(format) = "%v" THEN "v" ELSE "s", "(MISSING)">>)
              \o SprintfFrom(Tail(format), args, i + 1)
         ELSE <<Head(format)>> \o SprintfFrom(Tail(format), args, i)

Sprintf(format, args) == SprintfFrom(format, args, 1)

-----------------------------------------------------------------------------
(* i18n.go: message keys and the two bundled tables *)

MsgBindError == "bind_error"
MsgBindErrorDetail == "bind_error_detail"
MsgPathBindError == "path_bind_error"
MsgFieldValidationFailed == "field_validation_failed"
MsgFieldValidationFailedWithParam == "field_validation_failed_with_param"
MsgFieldParseFailed == "field_parse_failed"
MsgFieldTypeNotSupported == "field_type_not_supported"

MessageKeys == {MsgBindError, MsgBindErrorDetail, MsgPathBindError,
                MsgFieldValidationFailed, MsgFieldValidationFailedWithParam,
                MsgFieldParseFailed, MsgFieldTypeNotSupported}

defaultMessages ==
    [key \in MessageKeys |->
        CASE key = MsgBindError -> <<"canshu bangding shibai">>
          [] key = MsgBindErrorDetail -> <<"canshu bangding shibai", ": ", "%v">>
          [] key = MsgPathBindError -> <<"lujing canshu bangding shibai", ": ", "%v">>
          [] key = MsgFieldValidationFailed -> <<"ziduan yanzheng shibai", ": ", "%s">>
          [] key = MsgFieldValidationFailedWithParam ->
                <<"ziduan yanzheng shibai", ": ", "%s", "=", "%s">>
          [] key = MsgFieldParseFailed -> <<"ziduan ", "%s", " jiexi shibai", ": ", "%v">>
          [] key = MsgFieldTypeNotSupported ->
                <<"ziduan ", "%s", " de leixing ", "%s", " bu zhichi lujing bangding">>]

englishMessages ==
    [key \in MessageKeys |->
        CASE key = MsgBindError -> <<"Parameter binding failed">>
          [] key = MsgBindErrorDetail -> <<"Parameter binding failed", ": ", "%v">>
          [] key = MsgPathBindError -> <<"Path parameter binding failed", ": ", "%v">>
          [] key = MsgFieldValidationFailed -> <<"Field validation failed", ": ", "%s">>
          [] key = MsgFieldValidationFailedWithParam ->
                <<"Field validation failed", ": ", "%s", "=", "%s">>
          [] key = MsgFieldParseFailed -> <<"Field ", "%s", " parsing failed", ": ", "%v">>
          [] key = MsgFieldTypeNotSupported ->
                <<"Field ", "%s", " type ", "%s", " does not support path binding">>]

(* A table of a hand-built SimpleTranslator that lacks keys: only the two   *)
(* bind-failure entries, in French.                                        *)
partialMessages ==
    [key \in {MsgBindError, MsgBindErrorDetail} |->
        IF key = MsgBindError THEN <<"Echec de liaison">>
        ELSE <<"Echec de liaison", ": ", "%v">>]

(* A Go map value is a reference: a translator holds the name of its table. *)
Messages(table) ==
    CASE table = "englishMessages" -> englishMessages
      [] table = "partialMessages" -> partialMessages
      [] table = "emptyMessages" -> <<>>
      [] OTHER -> defaultMessages

(* m[key] of a Go map: the zero value "" when the key is absent *)
Lookup(m, key) == IF key \in DOMAIN m THEN m[key] ELSE <<>>

LocaleEn == <<"e", "n">>
LocaleEnDashUS == <<"e", "n", "-", "U", "S">>
LocaleEnUnderUS == <<"e", "n", "_", "U", "S">>
LocaleZh == <<"z", "h">>

NewSimpleTranslator(locale) ==
    [locale |-> locale,
     messages |-> IF locale \in {LocaleEn, LocaleEnDashUS, LocaleEnUnderUS}
                  THEN "englishMessages" ELSE "defaultMessages"]

Translate_noFallback(t, key, args) ==
    LET format == Lookup(Messages(t.messages), key)
    IN  IF Len(args) > 0 THEN Sprintf(format, args) ELSE format

(* SimpleTranslator.Translate *)
Translate(t, key, args) ==
    LET table == Messages(t.messages)
        format == IF key \in DOMAIN table THEN table[key]
                  ELSE Lookup(defaultMessages, key)
    IN  IF Len(args) > 0 THEN Sprintf(format, args) ELSE format

DefaultTranslator == NewSimpleTranslator(LocaleZh)

DefaultLocaleFunc_threshold(header) ==
    IF header = <<>> THEN LocaleZh
    ELSE IF Len(header) > 2 THEN SubSeq(header, 1, 2) ELSE LocaleZh

DefaultLocaleFunc(header) ==
    IF header = <<>> THEN LocaleZh
    ELSE IF Len(header) >= 2 THEN SubSeq(header, 1, 2) ELSE LocaleZh

-----------------------------------------------------------------------------
(* biz_error.go and the error values that reach the adapter.  An error is  *)
(* nil, a BizError (biz = TRUE) or any other error; fieldErrors is what a  *)
(* validator.ValidationErrors exposes (empty for every other error).       *)

NilError ==
    [isNil |-> TRUE, biz |-> FALSE, code |-> IntCode(0), message |-> <<>>,
     httpCode |-> 0, errors |-> NilSlice, fieldErrors |-> <<>>]

PlainError(text) == [NilError EXCEPT !.isNil = FALSE, !.message = text]

ValidationErrors(text, fes) ==
    [NilError EXCEPT !.isNil = FALSE, !.message = text, !.fieldErrors = fes]

NewBizError(code, message, httpCode) ==
    [NilError EXCEPT !.isNil = FALSE, !.biz = TRUE, !.code = code,
                     !.message = message, !.httpCode = httpCode]

NewBizErrorWithDetails_dropsErrors(code, message, httpCode, errors) ==
    [NilError EXCEPT !.isNil = FALSE, !.biz = TRUE, !.code = code,
                     !.message = message, !.httpCode = httpCode]

NewBizErrorWithDetails(code, message, httpCode, errors) ==
    [NilError EXCEPT !.isNil = FALSE, !.biz = TRUE, !.code = code,
                     !.message = message, !.httpCode = httpCode, !.errors = errors]

ErrBadRequest(code, msg) == NewBizError(code, msg, 400)
ErrUnauthorized(code, msg) == NewBizError(code, msg, 401)
ErrForbidden_unauthorized(code, msg) == NewBizError(code, msg, 401)
ErrForbidden(code, msg) == NewBizError(code, msg, 403)
ErrNotFound(code, msg) == NewBizError(code, msg, 404)
ErrConflict(code, msg) == NewBizError(code, msg, 409)
ErrInternalServer(code, msg) == NewBizError(code, msg, 500)

(* The accessors of BaseBizError *)
Error(e) == e.message
Code(e) == e.code
HTTPCode(e) == e.httpCode
Errors(e) == e.errors

-----------------------------------------------------------------------------
(* strconv.ParseInt(s, 10, 64) and strconv.ParseUint(s, 10, 64) on texts   *)
(* of one-character pieces.  A 64-bit value is kept as its canonical       *)
(* decimal text, so that the full width is compared digit by digit.        *)

Digits == {"0", "1", "2", "3", "4", "5", "6", "7", "8", "9"}

DigitVal(c) ==
    CASE c = "0" -> 0 [] c = "1" -> 1 [] c = "2" -> 2 [] c = "3" -> 3 [] c = "4" -> 4
      [] c = "5" -> 5 [] c = "6" -> 6 [] c = "7" -> 7 [] c = "8" -> 8 [] c = "9" -> 9

MaxUint64Text ==
    <<"1","8","4","4","6","7","4","4","0","7","3","7","0","9","5","5","1","6","1","5">>
Cutoff63Text ==
    <<"9","2","2","3","3","7","2","0","3","6","8","5","4","7","7","5","8","0","8">>

IsDigits(s) == Len(s) > 0 /\ \A i \in 1..Len(s) : s[i] \in Digits

RECURSIVE StripZeros(_)
StripZeros(s) == IF Len(s) > 1 /\ Head(s) = "0" THEN StripZeros(Tail(s)) ELSE s

(* a < b for canonical decimal texts *)
MagLess(a, b) ==
    \/ Len(a) < Len(b)
    \/ /\ Len(a) = Len(b)
       /\ \E i \in 1..Len(a) :
            /\ \A j \in 1..(i - 1) : a[j] = b[j]
            /\ DigitVal(a[i]) < DigitVal(b[i])

Quote(s) == <<"\"">> \o s \o <<"\"">>

NumError(fn, s, why) ==
    PlainError(<<"strconv.", fn, ": parsing ">> \o Quote(s) \o <<": ", why>>)

ParseUint(s) ==
    IF ~IsDigits(s)
    THEN [val |-> <<"0">>, err |-> NumError("ParseUint", s, "invalid syntax")]
    ELSE IF MagLess(MaxUint64Text, StripZeros(s))
         THEN [val |-> MaxUint64Text, err |-> NumError("ParseUint", s, "value out of range")]
         ELSE [val |-> StripZeros(s), err |-> NilError]

ParseInt_noRange(s) ==
    LET signed == Len(s) > 0 /\ Head(s) \in {"+", "-"}
        neg == Len(s) > 0 /\ Head(s) = "-"
        rest == IF signed THEN Tail(s) ELSE s
    IN  IF ~IsDigits(rest)
        THEN [val |-> <<"0">>, err |-> NumError("ParseInt", s, "invalid syntax")]
        ELSE LET un == StripZeros(rest)
             IN  [val |-> IF neg /\ un # <<"0">> THEN <<"-">> \o un ELSE un,
                  err |-> NilError]

ParseInt(s) ==
    LET signed == Len(s) > 0 /\ Head(s) \in {"+", "-"}
        neg == Len(s) > 0 /\ Head(s) = "-"
        rest == IF signed THEN Tail(s) ELSE s
    IN  IF ~IsDigits(rest)
        THEN [val |-> <<"0">>, err |-> NumError("ParseInt", s, "invalid syntax")]
        ELSE LET un == StripZeros(rest)
             IN  IF ~neg /\ ~MagLess(un, Cutoff63Text)
                 THEN [val |-> <<"0">>, err |-> NumError("ParseInt", s, "value out of range")]
                 ELSE IF neg /\ MagLess(Cutoff63Text, un)
                 THEN [val |-> <<"0">>, err |-> NumError("ParseInt", s, "value out of range")]
                 ELSE [val |-> IF neg /\ un # <<"0">> THEN <<"-">> \o un ELSE un,
                       err |-> NilError]

-----------------------------------------------------------------------------
(* Request struct types T: the declared fields in order.  kind is          *)
(* field.Type.Kind(), path the `path` tag ("" when absent), exported       *)
(* whether reflect can set the field.                                      *)

Field(name, kind, path, exported) ==
    [name |-> name, kind |-> kind, path |-> path, exported |-> exported]

ReqTypes == {"testRequest", "ownerRequest", "flagRequest"}

Fields(T) ==
    CASE T = "testRequest" ->
            <<Field("ID", "int64", "id", TRUE),
              Field("Name", "string", "", TRUE),
              Field("Age", "int", "", TRUE)>>
      [] T = "ownerRequest" ->
            <<Field("Owner", "uint64", "owner", TRUE),
              Field("Slug", "string", "slug", TRUE),
              Field("secret", "string", "id", FALSE)>>
      [] T = "flagRequest" ->
            <<Field("Name", "string", "slug", TRUE),
              Field("Flag", "bool", "flag", TRUE)>>
      [] T = "countRequest" ->
            <<Field("Count", "int", "count", TRUE),
              Field("ID", "int64", "id", TRUE)>>
      [] T = "mixedRequest" ->
            <<Field("ID", "int64", "id", TRUE),
              Field("Ratio", "float64", "ratio", TRUE),
              Field("Tags", "slice", "tags", TRUE)>>
      [] T = "nestedRequest" ->
            <<Field("hidden", "bool", "flag", FALSE),
              Field("Small", "int32", "small", TRUE),
              Field("Inner", "struct", "inner", TRUE)>>

FieldNames(T) == {Fields(T)[i].name : i \in 1..Len(Fields(T))}

ZeroOf(kind) ==
    CASE kind = "string" -> <<>>
      [] kind = "bool" -> <<"false">>
      [] kind = "slice" -> <<"nil">>
      [] kind = "struct" -> <<"{}">>
      [] OTHER -> <<"0">>

FieldOf(T, n) == Fields(T)[CHOOSE i \in 1..Len(Fields(T)) : Fields(T)[i].name = n]

(* new(T): every field at its zero value, printed as text *)
New(T) == [n \in FieldNames(T) |-> ZeroOf(FieldOf(T, n).kind)]

-----------------------------------------------------------------------------
(* api_handler.go: bindPathParams.  The four message formats are the       *)
(* literals of the source, piece for piece.                                *)

FmtFieldParseFailed == <<"ziduan ", "%s", " jiexi shibai", ": ", "%v">>
FmtFieldTypeNotSupported ==
    <<"ziduan ", "%s", " de leixing ", "%s", " bu zhichi lujing bangding">>
FmtBindFailed_noDetail == <<"canshu bangding shibai">>

FmtBindFailed == <<"canshu bangding shibai", ": ", "%v">>
FmtPathBindFailed == <<"lujing canshu bangding shibai", ": ", "%v">>

(* fmt.Errorf *)
Errorf(format, args) == PlainError(Sprintf(format, args))

(* c.Param(key): the path parameter, "" when the route has none of that name *)
Param_zeroWhenAbsent(params, key) == IF key \in DOMAIN params THEN params[key] ELSE <<"0">>

Param(params, key) == IF key \in DOMAIN params THEN params[key] ELSE <<>>

SwitchCase_intAsInt64(kind) ==
    CASE kind = "string" -> "reflect.String"
      [] kind \in {"int", "int64"} -> "reflect.Int64"
      [] kind = "uint64" -> "reflect.Uint64"
      [] OTHER -> "default"

(* switch field.Type.Kind(): the case a kind selects *)
SwitchCase(kind) ==
    CASE kind = "string" -> "reflect.String"
      [] kind = "int64" -> "reflect.Int64"
      [] kind = "uint64" -> "reflect.Uint64"
      [] OTHER -> "default"

RECURSIVE bindPathFrom(_, _, _, _)
bindPathFrom(fields, params, v, i) ==
    IF i > Len(fields)
    THEN [err |-> NilError, req |-> v]
    ELSE LET field == fields[i]
             paramValue == Param(params, field.path)
         IN  IF field.path = "" \/ paramValue = <<>> \/ ~field.exported
             THEN bindPathFrom(fields, params, v, i + 1)
             ELSE CASE SwitchCase(field.kind) = "reflect.String" ->
                         bindPathFrom(fields, params,
                                      [v EXCEPT ![field.name] = paramValue], i + 1)
                    [] SwitchCase(field.kind) = "reflect.Int64" ->
                         LET p == ParseInt(paramValue)
                         IN  IF ~p.err.isNil
                             THEN [err |-> Errorf(FmtFieldParseFailed,
                                                  <<<<field.name>>, p.err.message>>),
                                   req |-> v]
                             ELSE bindPathFrom(fields, params,
                                               [v EXCEPT ![field.name] = p.val], i + 1)
                    [] SwitchCase(field.kind) = "reflect.Uint64" ->
                         LET p == ParseUint(paramValue)
                         IN  IF ~p.err.isNil
                             THEN [err |-> Errorf(FmtFieldParseFailed,
                                                  <<<<field.name>>, p.err.message>>),
                                   req |-> v]
                             ELSE bindPathFrom(fields, params,
                                               [v EXCEPT ![field.name] = p.val], i + 1)
                    [] OTHER ->
                         [err |-> Errorf(FmtFieldTypeNotSupported,
                                         <<<<field.name>>, <<field.kind>>>>),
                          req |-> v]

bindPathParams_lastDeclaredFirst(T, params, v) ==
    LET F == Fields(T)
    IN  bindPathFrom([i \in 1..Len(F) |-> F[Len(F) + 1 - i]], params, v, 1)

bindPathParams(T, params, v) == bindPathFrom(Fields(T), params, v, 1)

-----------------------------------------------------------------------------
(* api_handler.go: the response envelopes as encoding/json writes them.    *)
(* `errors` carries omitempty: the key is left out when len(Errors) = 0.   *)

NilResp == [isNil |-> TRUE, v |-> <<>>]
Resp(v) == [isNil |-> FALSE, v |-> <<v>>]

ErrorResponse_noOmitEmpty(code, message, errors) ==
    IF errors.nil
    THEN [code |-> code, message |-> message]
    ELSE [code |-> code, message |-> message, errors |-> errors.elems]

ErrorResponse(code, message, errors) ==
    IF len(errors) = 0
    THEN [code |-> code, message |-> message]
    ELSE [code |-> code, message |-> message, errors |-> errors.elems]

SuccessResponse(code, data) == [code |-> code, data |-> data]

(* c.JSON(status, obj) *)
JSON(status, body) == [status |-> status, body |-> body]

handleError_always500(err) ==
    JSON(StatusInternalServerError,
         ErrorResponse(IF err.biz THEN err.code ELSE IntCode(StatusInternalServerError),
                       err.message, err.errors))

handleError_plainAsBiz(err) ==
    JSON(IF err.biz THEN err.httpCode ELSE StatusBadRequest,
         ErrorResponse(err.code, err.message, err.errors))

handleError(err) ==
    IF err.biz
    THEN JSON(err.httpCode, ErrorResponse(err.code, err.message, err.errors))
    ELSE JSON(StatusInternalServerError,
              ErrorResponse(IntCode(StatusInternalServerError), err.message, NilSlice))

-----------------------------------------------------------------------------
(* api_handler.go: HandlerConfig, DefaultConfig and the options.           *)
(* RequestLogger is "nil" or the name of a logging function.               *)

InitialDefaultConfig ==
    [SuccessCode |-> IntCode(0),
     SuccessHTTPCode |-> StatusOK,
     BindErrorCode |-> IntCode(StatusBadRequest),
     RequestLogger |-> "nil"]

(* The README's "modify the global default configuration". *)
ReadmeDefaultConfig ==
    [SuccessCode |-> IntCode(1),
     SuccessHTTPCode |-> StatusOK,
     BindErrorCode |-> IntCode(40000),
     RequestLogger |-> "nil"]

(* The translator and locale function of a configuration (spec section 3): *)
(* unset unless an option sets them.  A locale function is "nil" or the    *)
(* name of a function; "constEn" returns "en" for every request.           *)
NilTranslator == [locale |-> <<>>, messages |-> "nil"]
I18nUnset == [Translator |-> NilTranslator, LocaleFunc |-> "nil"]

Option(name) ==
    [name |-> name, code |-> IntCode(0), n |-> 0, ref |-> "nil", tr |-> NilTranslator]

WithSuccessCode(code) == [Option("WithSuccessCode") EXCEPT !.code = code]
WithSuccessHTTPCode(code) == [Option("WithSuccessHTTPCode") EXCEPT !.n = code]
WithBindErrorCode(code) == [Option("WithBindErrorCode") EXCEPT !.code = code]
WithRequestLogger(logger) == [Option("WithRequestLogger") EXCEPT !.ref = logger]
WithTranslator(t) == [Option("WithTranslator") EXCEPT !.tr = t]
WithLocaleFunc(f) == [Option("WithLocaleFunc") EXCEPT !.ref = f]

(* opt(config) *)
Apply(opt, c) ==
    CASE opt.name = "WithSuccessCode" -> [c EXCEPT !.SuccessCode = opt.code]
      [] opt.name = "WithSuccessHTTPCode" -> [c EXCEPT !.SuccessHTTPCode = opt.n]
      [] opt.name = "WithBindErrorCode" -> [c EXCEPT !.BindErrorCode = opt.code]
      [] opt.name = "WithRequestLogger" -> [c EXCEPT !.RequestLogger = opt.ref]
      [] opt.name = "WithTranslator" -> [c EXCEPT !.Translator = opt.tr]
      [] opt.name = "WithLocaleFunc" -> [c EXCEPT !.LocaleFunc = opt.ref]

RECURSIVE ApplyAll_firstWins(_, _)
ApplyAll_firstWins(opts, c) ==
    IF opts = <<>> THEN c ELSE Apply(Head(opts), ApplyAll_firstWins(Tail(opts), c))

RECURSIVE ApplyAll(_, _)
ApplyAll(opts, c) ==
    IF opts = <<>> THEN c ELSE ApplyAll(Tail(opts), Apply(Head(opts), c))

(* Handler: the configuration it builds from DefaultConfig and the options *)
HandlerConfigOf(default, opts) ==
    ApplyAll(opts,
             [SuccessCode |-> default.SuccessCode,
              SuccessHTTPCode |-> default.SuccessHTTPCode,
              BindErrorCode |-> default.BindErrorCode,
              RequestLogger |-> default.RequestLogger] @@ I18nUnset)

(* HandlerWithCode: the parameters the returned closure captures *)
HandlerWithCode(T, successCode, successHTTPCode, bindErrorCode, requestLogger) ==
    [registered |-> TRUE, T |-> T, successCode |-> successCode,
     successHTTPCode |-> successHTTPCode, bindErrorCode |-> bindErrorCode,
     requestLogger |-> requestLogger]

HandlerWithConfig_swapsCodes(T, c) ==
    HandlerWithCode(T, c.BindErrorCode, c.SuccessHTTPCode, c.SuccessCode, c.RequestLogger)

HandlerWithConfig(T, c) ==
    HandlerWithCode(T, c.SuccessCode, c.SuccessHTTPCode, c.BindErrorCode, c.RequestLogger)

NoHandler ==
    [registered |-> FALSE, T |-> "testRequest", successCode |-> IntCode(0),
     successHTTPCode |-> 0, bindErrorCode |-> IntCode(0), requestLogger |-> "nil"]

(* The translator of a request (spec section 4.4, step 2) *)
CallLocaleFunc(f, r) == IF f = "constEn" THEN LocaleEn ELSE LocaleZh

ResolveTranslator(c, r) ==
    IF c.Translator # NilTranslator
    THEN c.Translator
    ELSE IF c.LocaleFunc # "nil"
         THEN NewSimpleTranslator(CallLocaleFunc(c.LocaleFunc, r))
         ELSE NewSimpleTranslator(DefaultLocaleFunc(r.header))

-----------------------------------------------------------------------------
(* The inputs the model draws from *)

Options ==
    {WithSuccessCode(StrCode("OK")), WithSuccessHTTPCode(201),
     WithBindErrorCode(IntCode(40000)), WithRequestLogger("logRequest"),
     WithTranslator(NewSimpleTranslator(LocaleEn)), WithLocaleFunc("constEn")}

RECURSIVE SeqsUpTo(_, _)
SeqsUpTo(S, n) ==
    IF n = 0 THEN {<<>>}
    ELSE LET shorter == SeqsUpTo(S, n - 1)
         IN  shorter \cup {Append(q, x) : q \in shorter, x \in S}

HandlerHeaders == {<<>>, LocaleEn, LocaleZh}

Absent == <<>>
Seven == <<"7">>
Abc == <<"a", "b", "c">>
MinusFive == <<"-", "5">>

(* The path parameters a route of the request type can deliver *)
ParamSets(T) ==
    CASE T = "testRequest" ->
            {[id |-> x] : x \in {Absent, Seven, Abc, MinusFive, <<"0", "0", "7">>}}
      [] T = "ownerRequest" ->
            {[owner |-> x, slug |-> y, id |-> Seven] :
                x \in {Absent, Seven, Abc, MinusFive}, y \in {Absent, Abc}}
      [] T = "flagRequest" ->
            {[slug |-> x, flag |-> y] : x \in {Absent, Abc}, y \in {Absent, Seven}}

Inputs(T) == {[header |-> h, params |-> ps] : h \in HandlerHeaders, ps \in ParamSets(T)}

(* What c.ShouldBind(req) can leave in req when it succeeds *)
BoundValues(T) ==
    CASE T = "testRequest" ->
            {New(T), [New(T) EXCEPT !.Name = <<"b", "o", "b">>, !.Age = <<"2", "5">>],
             [New(T) EXCEPT !.ID = <<"5">>],
             [New(T) EXCEPT !.ID = <<"5">>, !.Name = <<"b", "o", "b">>]}
      [] T = "ownerRequest" -> {New(T), [New(T) EXCEPT !.Slug = <<"x">>]}
      [] T = "flagRequest" -> {New(T)}

FieldErrorName == [field |-> <<"Name">>, tag |-> <<"required">>, param |-> <<>>]
FieldErrorAge == [field |-> <<"Age">>, tag |-> <<"min">>, param |-> <<"1", "8">>]

(* The errors c.ShouldBind(req) can return *)
BindErrors ==
    {PlainError(<<"EOF">>),
     ValidationErrors(<<"Key: 'Name' Error:Field validation for 'Name' failed on the 'required' tag">>,
                      <<FieldErrorName>>),
     ValidationErrors(<<"Key: 'Name' Error:Field validation for 'Name' failed on the 'required' tag",
                        "\n",
                        "Key: 'Age' Error:Field validation for 'Age' failed on the 'min' tag">>,
                      <<FieldErrorName, FieldErrorAge>>)}

SubError == [field |-> <<"id">>, message |-> <<"ID geshi cuowu">>]

(* What the business function can return: (resp, err) *)
BizResults(v) ==
    {[resp |-> Resp(v), err |-> NilError],
     [resp |-> NilResp, err |-> NilError],
     [resp |-> NilResp, err |-> ErrNotFound(IntCode(40400), <<"ziyuan bu cunzai">>)],
     [resp |-> NilResp, err |-> ErrBadRequest(IntCode(40000), <<"Parameter binding failed">>)],
     [resp |-> NilResp,
      err |-> NewBizErrorWithDetails(StrCode("VALIDATION_ERROR"), <<"canshu yanzheng shibai">>,
                                     StatusBadRequest, MkSlice(<<SubError>>))],
     [resp |-> NilResp,
      err |-> NewBizErrorWithDetails(IntCode(40001), <<"canshu yanzheng shibai">>,
                                     422, MkSlice(<<>>))],
     [resp |-> Resp(v), err |-> PlainError(<<"boom">>)]}

-----------------------------------------------------------------------------
(* State of a request slot outside a request *)

NoInput == [header |-> <<>>, params |-> <<>>]
NoResult ==
    [bindErr |-> NilError, pathErr |-> NilError, resp |-> NilResp, err |-> NilError,
     bound |-> <<>>, arg |-> <<>>]
NoCalls == [bind |-> 0, path |-> 0, log |-> 0, biz |-> 0]
NoOut ==
    [stage |-> "none", via |-> "", locale |-> <<>>, tr |-> NilTranslator,
     key |-> "", msg |-> <<>>]

Init ==
    /\ DefaultConfig = InitialDefaultConfig
    /\ config = InitialDefaultConfig @@ I18nUnset
    /\ handler = NoHandler
    /\ pc = [r \in Slots |-> "idle"]
    /\ input = [r \in Slots |-> NoInput]
    /\ req = [r \in Slots |-> <<>>]
    /\ result = [r \in Slots |-> NoResult]
    /\ calls = [r \in Slots |-> NoCalls]
    /\ written = [r \in Slots |-> <<>>]
    /\ logged = [r \in Slots |-> <<>>]
    /\ fnIn = <<>>
    /\ fnOut = NoOut

-----------------------------------------------------------------------------
(* Start-up: DefaultConfig.X = ... and route registration *)

SetDefaultConfig ==
    /\ DefaultConfig = InitialDefaultConfig
    /\ DefaultConfig' = ReadmeDefaultConfig
    /\ UNCHANGED <<config, handler, pc, input, req, result, calls, written, logged,
                   fnIn, fnOut>>

(* r.GET(path, Handler(handleFunc, opts...)) for a handleFunc over T *)
Handler(T, opts) ==
    /\ \A r \in Slots : pc[r] = "idle"
    /\ config' = HandlerConfigOf(DefaultConfig, opts)
    /\ handler' = HandlerWithConfig(T, config')
    /\ UNCHANGED <<DefaultConfig, pc, input, req, result, calls, written, logged,
                   fnIn, fnOut>>

-----------------------------------------------------------------------------
(* The closure returned by HandlerWithCode, one action per step.  Where    *)
(* the closure goes after it has written an error envelope is its          *)
(* `return`: the request is over.                                          *)

AfterBindError_fallthrough == "path"

AfterBindError == "done"

AfterPathError_fallthrough == "log"

AfterPathError == "done"

AfterBizError == "done"

(* The slot a new request gets: the first one that is free *)
FreeSlot == IF pc["r1"] = "idle" THEN "r1" ELSE "r2"

(* gin dispatches the request: req := new(T).  Under Spec the server takes *)
(* one request at a time.                                                  *)
Serve(r, in) ==
    /\ handler.registered
    /\ \A s \in Slots : pc[s] = "idle"
    /\ r = FreeSlot
    /\ pc' = [pc EXCEPT ![r] = "bind"]
    /\ input' = [input EXCEPT ![r] = in]
    /\ req' = [req EXCEPT ![r] = New(handler.T)]
    /\ result' = [result EXCEPT ![r] = NoResult]
    /\ calls' = [calls EXCEPT ![r] = NoCalls]
    /\ written' = [written EXCEPT ![r] = <<>>]
    /\ logged' = [logged EXCEPT ![r] = <<>>]
    /\ UNCHANGED <<DefaultConfig, config, handler, fnIn, fnOut>>

(* c.ShouldBind(req) returns nil, having filled req *)
ShouldBindOk(r, v) ==
    /\ pc[r] = "bind"
    /\ calls' = [calls EXCEPT ![r].bind = @ + 1]
    /\ req' = [req EXCEPT ![r] = v]
    /\ result' = [result EXCEPT ![r].bound = v]
    /\ pc' = [pc EXCEPT ![r] = "path"]
    /\ UNCHANGED <<DefaultConfig, config, handler, input, written, logged, fnIn, fnOut>>

(* c.ShouldBind(req) returns err: handleError(c, NewBizError(...)); return *)
ShouldBindFails(r, e) ==
    /\ pc[r] = "bind"
    /\ calls' = [calls EXCEPT ![r].bind = @ + 1]
    /\ result' = [result EXCEPT ![r].bindErr = e]
    /\ written' = [written EXCEPT ![r] =
            Append(@, handleError(NewBizError(handler.bindErrorCode,
                                              Sprintf(FmtBindFailed, <<e.message>>),
                                              StatusBadRequest)))]
    /\ pc' = [pc EXCEPT ![r] = AfterBindError]
    /\ UNCHANGED <<DefaultConfig, config, handler, input, req, logged, fnIn, fnOut>>

BindPath_onFreshValue(r) ==
    /\ pc[r] = "path"
    /\ LET b == bindPathParams(handler.T, input[r].params, New(handler.T))
       IN  /\ calls' = [calls EXCEPT ![r].path = @ + 1]
           /\ req' = [req EXCEPT ![r] = b.req]
           /\ result' = [result EXCEPT ![r].pathErr = b.err]
           /\ IF b.err.isNil
              THEN /\ pc' = [pc EXCEPT ![r] = "log"]
                   /\ UNCHANGED written
              ELSE /\ written' = [written EXCEPT ![r] =
                        Append(@, handleError(NewBizError(handler.bindErrorCode,
                                                 Sprintf(FmtPathBindFailed, <<b.err.message>>),
                                                 StatusBadRequest)))]
                   /\ pc' = [pc EXCEPT ![r] = AfterPathError]
    /\ UNCHANGED <<DefaultConfig, config, handler, input, logged, fnIn, fnOut>>

(* bindPathParams(c, req), and on its error handleError(...); return *)
BindPath(r) ==
    /\ pc[r] = "path"
    /\ LET b == bindPathParams(handler.T, input[r].params, req[r])
       IN  /\ calls' = [calls EXCEPT ![r].path = @ + 1]
           /\ req' = [req EXCEPT ![r] = b.req]
           /\ result' = [result EXCEPT ![r].pathErr = b.err]
           /\ IF b.err.isNil
              THEN /\ pc' = [pc EXCEPT ![r] = "log"]
                   /\ UNCHANGED written
              ELSE /\ written' = [written EXCEPT ![r] =
                        Append(@, handleError(NewBizError(handler.bindErrorCode,
                                                 Sprintf(FmtPathBindFailed, <<b.err.message>>),
                                                 StatusBadRequest)))]
                   /\ pc' = [pc EXCEPT ![r] = AfterPathError]
    /\ UNCHANGED <<DefaultConfig, config, handler, input, logged, fnIn, fnOut>>

(* if requestLogger != nil { requestLogger(c.Request, req) } *)
LogRequest(r) ==
    /\ pc[r] = "log"
    /\ IF handler.requestLogger # "nil"
       THEN /\ logged' = [logged EXCEPT ![r] = Append(@, req[r])]
            /\ calls' = [calls EXCEPT ![r].log = @ + 1]
       ELSE UNCHANGED <<logged, calls>>
    /\ pc' = [pc EXCEPT ![r] = "biz"]
    /\ UNCHANGED <<DefaultConfig, config, handler, input, req, result, written,
                   fnIn, fnOut>>

CallHandleFunc_respFirst(r, out) ==
    /\ pc[r] = "biz"
    /\ calls' = [calls EXCEPT ![r].biz = @ + 1]
    /\ result' = [result EXCEPT ![r].resp = out.resp, ![r].err = out.err,
                                ![r].arg = req[r]]
    /\ IF out.err.isNil \/ ~out.resp.isNil
       THEN /\ pc' = [pc EXCEPT ![r] = "success"]
            /\ UNCHANGED written
       ELSE /\ written' = [written EXCEPT ![r] = Append(@, handleError(out.err))]
            /\ pc' = [pc EXCEPT ![r] = AfterBizError]
    /\ UNCHANGED <<DefaultConfig, config, handler, input, req, logged, fnIn, fnOut>>

(* resp, err := handleFunc(ctx, req); if err != nil { handleError(c, err); return } *)
CallHandleFunc(r, out) ==
    /\ pc[r] = "biz"
    /\ calls' = [calls EXCEPT ![r].biz = @ + 1]
    /\ result' = [result EXCEPT ![r].resp = out.resp, ![r].err = out.err,
                                ![r].arg = req[r]]
    /\ IF out.err.isNil
       THEN /\ pc' = [pc EXCEPT ![r] = "success"]
            /\ UNCHANGED written
       ELSE /\ written' = [written EXCEPT ![r] = Append(@, handleError(out.err))]
            /\ pc' = [pc EXCEPT ![r] = AfterBizError]
    /\ UNCHANGED <<DefaultConfig, config, handler, input, req, logged, fnIn, fnOut>>

WriteSuccess_readsConfig(r) ==
    /\ pc[r] = "success"
    /\ written' = [written EXCEPT ![r] =
            Append(@, JSON(config.SuccessHTTPCode,
                           SuccessResponse(config.SuccessCode, result[r].resp)))]
    /\ pc' = [pc EXCEPT ![r] = "done"]
    /\ UNCHANGED <<DefaultConfig, config, handler, input, req, result, calls, logged,
                   fnIn, fnOut>>

(* c.JSON(successHTTPCode, SuccessResponse[R]{Code: successCode, Data: resp}) *)
WriteSuccess(r) ==
    /\ pc[r] = "success"
    /\ written' = [written EXCEPT ![r] =
            Append(@, JSON(handler.successHTTPCode,
                           SuccessResponse(handler.successCode, result[r].resp)))]
    /\ pc' = [pc EXCEPT ![r] = "done"]
    /\ UNCHANGED <<DefaultConfig, config, handler, input, req, result, calls, logged,
                   fnIn, fnOut>>

(* The closure has returned; gin releases the context. *)
Finish(r) ==
    /\ pc[r] = "done"
    /\ pc' = [pc EXCEPT ![r] = "idle"]
    /\ input' = [input EXCEPT ![r] = NoInput]
    /\ req' = [req EXCEPT ![r] = <<>>]
    /\ result' = [result EXCEPT ![r] = NoResult]
    /\ calls' = [calls EXCEPT ![r] = NoCalls]
    /\ written' = [written EXCEPT ![r] = <<>>]
    /\ logged' = [logged EXCEPT ![r] = <<>>]
    /\ UNCHANGED <<DefaultConfig, config, handler, fnIn, fnOut>>

Next ==
    \/ SetDefaultConfig
    \/ \E T \in ReqTypes, opts \in SeqsUpTo(Options, MaxOpts) : Handler(T, opts)
    \/ \E r \in Slots :
        \/ \E in \in Inputs(handler.T) : Serve(r, in)
        \/ \E v \in BoundValues(handler.T) : ShouldBindOk(r, v)
        \/ \E e \in BindErrors : ShouldBindFails(r, e)
        \/ BindPath(r)
        \/ LogRequest(r)
        \/ \E out \in BizResults(req[r]) : CallHandleFunc(r, out)
        \/ WriteSuccess(r)
        \/ Finish(r)

Spec == Init /\ [][Next]_vars

-----------------------------------------------------------------------------
(* Shapes of a written envelope *)

IsSuccessEnvelope(w) == DOMAIN w.body = {"code", "data"}
IsErrorEnvelope(w) ==
    DOMAIN w.body = {"code", "message"} \/ DOMAIN w.body = {"code", "message", "errors"}

Responded(r) == pc[r] = "done" /\ Len(written[r]) > 0
Envelope(r) == written[r][Len(written[r])]

BindFailed(r) == ~result[r].bindErr.isNil
PathFailed(r) == ~result[r].pathErr.isNil
BizFailed(r) == ~result[r].err.isNil
BizSucceeded(r) == calls[r].biz = 1 /\ result[r].err.isNil

-----------------------------------------------------------------------------
(* C1: every request writes exactly one envelope, a success envelope or an *)
(* error envelope: none is written before the request's last step, one is  *)
(* written when the closure has returned, and once an envelope is written  *)
(* the closure has returned.                                               *)
C1_ExactlyOneEnvelope ==
    \A r \in Slots :
        /\ Len(written[r]) <= 1
        /\ (pc[r] = "done" => Len(written[r]) = 1)
        /\ (Len(written[r]) > 0 => pc[r] = "done")
        /\ \A i \in 1..Len(written[r]) :
              IsSuccessEnvelope(written[r][i]) # IsErrorEnvelope(written[r][i])

C1_Witness ==
    \E r \in Slots :
        /\ pc[r] = "done" /\ BindFailed(r)
        /\ Len(written[r]) = 1 /\ IsErrorEnvelope(written[r][1])

(* C2: the first failing step ends the request.  After a failed generic    *)
(* bind neither path binding, the logger nor the business function has     *)
(* run; after a failed path bind neither the logger nor the business       *)
(* function has run; no step runs twice.                                   *)
C2_FirstFailureEndsRequest ==
    \A r \in Slots :
        /\ calls[r].bind <= 1 /\ calls[r].path <= 1
        /\ calls[r].log <= 1 /\ calls[r].biz <= 1
        /\ (BindFailed(r) =>
              calls[r].path = 0 /\ calls[r].log = 0 /\ calls[r].biz = 0
              /\ logged[r] = <<>>)
        /\ (PathFailed(r) =>
              calls[r].log = 0 /\ calls[r].biz = 0 /\ logged[r] = <<>>)

C2_Witness ==
    \E r \in Slots :
        /\ pc[r] = "done" /\ PathFailed(r)
        /\ handler.requestLogger # "nil"
        /\ calls[r].bind = 1 /\ calls[r].path = 1

(* C3: a BizError returned by the business function is written with its    *)
(* own HTTPCode(), Code(), Error() text and, when non-empty, Errors();      *)
(* nothing of the configuration, translator or locale enters the envelope. *)
C3_BizErrorVerbatim ==
    \A r \in Slots :
        (pc[r] = "done" /\ BizFailed(r) /\ result[r].err.biz) =>
            /\ Len(written[r]) > 0
            /\ LET e == result[r].err
                   w == Envelope(r)
               IN  /\ w.status = e.httpCode
                   /\ w.body.code = e.code
                   /\ w.body.message = e.message
                   /\ (len(e.errors) > 0 =>
                          /\ "errors" \in DOMAIN w.body
                          /\ w.body.errors = e.errors.elems)

C3_Witness ==
    \E r \in Slots :
        /\ Responded(r) /\ BizFailed(r) /\ result[r].err.biz
        /\ len(result[r].err.errors) > 0
        /\ config.Translator # NilTranslator
        /\ config.BindErrorCode # Envelope(r).body.code

(* C4: an error of the business function that is no BizError is written    *)
(* as status 500 with body {code: 500, message: its text} and no errors     *)
(* key, whatever the configuration.                                        *)
C4_PlainErrorIs500 ==
    \A r \in Slots :
        (pc[r] = "done" /\ BizFailed(r) /\ ~result[r].err.biz) =>
            written[r] = <<[status |-> 500,
                            body |-> [code |-> IntCode(500),
                                      message |-> result[r].err.message]]>>

C4_Witness ==
    \E r \in Slots :
        /\ Responded(r) /\ BizFailed(r) /\ ~result[r].err.biz
        /\ config.BindErrorCode # IntCode(400)
        /\ config.SuccessCode # IntCode(0)

(* C5: when both bindings succeed and the business function returns no     *)
(* error, the envelope has the configured success status and the body      *)
(* {code: configured success code, data: the returned value}; under the    *)
(* default configuration that is status 200 and code 0.                    *)
C5_SuccessEnvelope ==
    \A r \in Slots :
        (pc[r] = "done" /\ BizSucceeded(r)) =>
            /\ ~BindFailed(r) /\ ~PathFailed(r)
            /\ written[r] = <<[status |-> config.SuccessHTTPCode,
                               body |-> [code |-> config.SuccessCode,
                                         data |-> result[r].resp]]>>
            /\ (config = InitialDefaultConfig @@ I18nUnset =>
                    /\ written[r][1].status = 200
                    /\ written[r][1].body.code = IntCode(0))

C5_Witness ==
    \E r \in Slots :
        /\ Responded(r) /\ BizSucceeded(r)
        /\ ~result[r].resp.isNil
        /\ config.SuccessHTTPCode = 201
        /\ config.SuccessCode = StrCode("OK")

(* C6: a generic bind failure that exposes per-field validation failures   *)
(* is written as status 400, the configured bind-error code, the locale's  *)
(* bare bind-failure text and one {field, message} entry per field         *)
(* failure.                                                                *)
C6_ValidationFailureEnvelope ==
    \A r \in Slots :
        (pc[r] = "done" /\ BindFailed(r) /\ result[r].bindErr.fieldErrors # <<>>) =>
            /\ Len(written[r]) = 1
            /\ LET w == written[r][1]
                   fes == result[r].bindErr.fieldErrors
               IN  /\ w.status = 400
                   /\ w.body.code = config.BindErrorCode
                   /\ w.body.message =
                         Translate(ResolveTranslator(config, input[r]), MsgBindError, <<>>)
                   /\ "errors" \in DOMAIN w.body
                   /\ Len(w.body.errors) = Len(fes)
                   /\ \A i \in 1..Len(fes) :
                         DOMAIN w.body.errors[i] = {"field", "message"}

C8_PathFailureEnvelope ==
    \A r \in Slots :
        (pc[r] = "done" /\ PathFailed(r)) =>
            written[r] =
                <<[status |-> 400,
                   body |-> [code |-> config.BindErrorCode,
                             message |-> Translate(ResolveTranslator(config, input[r]),
                                                   MsgPathBindError,
                                                   <<result[r].pathErr.message>>)]]>>

(* C9: the table of an adapter-manufactured message is the one chosen by   *)
(* precedence: the configured translator, else the locale function's       *)
(* locale, else the locale of the Accept-Language header.                  *)
C9_TranslatorPrecedence ==
    \A r \in Slots :
        (pc[r] = "done" /\ (BindFailed(r) \/ PathFailed(r))) =>
            /\ Len(written[r]) > 0
            /\ Head(Envelope(r).body.message) =
                  Head(Messages(ResolveTranslator(config, input[r]).messages)
                          [IF BindFailed(r) THEN MsgBindError ELSE MsgPathBindError])

-----------------------------------------------------------------------------
(* Direct calls of the exported i18n functions: DefaultLocaleFunc on a     *)
(* request whose Accept-Language header is fnIn, NewSimpleTranslator on    *)
(* the locale it returned (or on fnIn itself), Translate on the result.    *)

HeaderAlphabet == {"e", "n", "z", "h", "E", "-"}
EnUSHeader == <<"e", "n", "-", "U", "S", ",", "e", "n", ";", "q", "=", "0", ".", "9">>
Headers ==
    SeqsUpTo(HeaderAlphabet, MaxHeaderLen)
        \cup {EnUSHeader, LocaleEnDashUS, LocaleEnUnderUS}

InitLocale ==
    /\ DefaultConfig = InitialDefaultConfig
    /\ config = InitialDefaultConfig @@ I18nUnset
    /\ handler = NoHandler
    /\ pc = [r \in Slots |-> "idle"]
    /\ input = [r \in Slots |-> NoInput]
    /\ req = [r \in Slots |-> <<>>]
    /\ result = [r \in Slots |-> NoResult]
    /\ calls = [r \in Slots |-> NoCalls]
    /\ written = [r \in Slots |-> <<>>]
    /\ logged = [r \in Slots |-> <<>>]
    /\ fnIn \in Headers
    /\ fnOut = NoOut

CallDefaultLocaleFunc ==
    /\ fnOut.stage = "none"
    /\ fnOut' = [fnOut EXCEPT !.stage = "locale", !.via = "header",
                              !.locale = DefaultLocaleFunc(fnIn)]
    /\ UNCHANGED <<handlerVars, fnIn>>

CallNewSimpleTranslator ==
    /\ fnOut.stage = "locale"
    /\ fnOut' = [fnOut EXCEPT !.stage = "translator",
                              !.tr = NewSimpleTranslator(fnOut.locale)]
    /\ UNCHANGED <<handlerVars, fnIn>>

CallNewSimpleTranslatorOn ==
    /\ fnOut.stage = "none"
    /\ fnOut' = [fnOut EXCEPT !.stage = "translator", !.via = "direct",
                              !.locale = fnIn, !.tr = NewSimpleTranslator(fnIn)]
    /\ UNCHANGED <<handlerVars, fnIn>>

CallTranslate(key) ==
    /\ fnOut.stage = "translator"
    /\ fnOut' = [fnOut EXCEPT !.stage = "message", !.key = key,
                              !.msg = Translate(fnOut.tr, key, <<>>)]
    /\ UNCHANGED <<handlerVars, fnIn>>

NextLocale ==
    \/ CallDefaultLocaleFunc
    \/ CallNewSimpleTranslator
    \/ CallNewSimpleTranslatorOn
    \/ \E key \in MessageKeys : CallTranslate(key)

SpecLocale == InitLocale /\ [][NextLocale]_vars

-----------------------------------------------------------------------------
(* Direct calls of Translate: fnIn is the receiver, the key and the        *)
(* arguments; fnOut the returned text.  The receivers are the translators  *)
(* NewSimpleTranslator builds and SimpleTranslator values whose table      *)
(* lacks keys.                                                             *)

MsgUnknown == "no_such_key"

Translators ==
    {NewSimpleTranslator(LocaleZh), NewSimpleTranslator(LocaleEn),
     NewSimpleTranslator(LocaleEnDashUS), NewSimpleTranslator(<<"f", "r">>),
     [locale |-> <<"f", "r">>, messages |-> "partialMessages"],
     [locale |-> <<"x", "x">>, messages |-> "emptyMessages"]}

ArgTexts == {<<"EOF">>, <<"required">>}

ArgLists == SeqsUpTo(ArgTexts, MaxArgs)

InitTranslate ==
    /\ DefaultConfig = InitialDefaultConfig
    /\ config = InitialDefaultConfig @@ I18nUnset
    /\ handler = NoHandler
    /\ pc = [r \in Slots |-> "idle"]
    /\ input = [r \in Slots |-> NoInput]
    /\ req = [r \in Slots |-> <<>>]
    /\ result = [r \in Slots |-> NoResult]
    /\ calls = [r \in Slots |-> NoCalls]
    /\ written = [r \in Slots |-> <<>>]
    /\ logged = [r \in Slots |-> <<>>]
    /\ fnIn \in [t : Translators, key : MessageKeys \cup {MsgUnknown}, args : ArgLists]
    /\ fnOut = [called |-> FALSE, msg |-> <<>>]

CallTranslateWith ==
    /\ ~fnOut.called
    /\ fnOut' = [called |-> TRUE, msg |-> Translate(fnIn.t, fnIn.key, fnIn.args)]
    /\ UNCHANGED <<handlerVars, fnIn>>

NextTranslate == CallTranslateWith

SpecTranslate == InitTranslate /\ [][NextTranslate]_vars

(* The template the claim names for a key: that of the receiver's table    *)
(* when the table holds the key, else that of the default (zh) table.      *)
TableHolds(t, key) ==
    \/ t.messages \in {"englishMessages", "defaultMessages"} /\ key \in MessageKeys
    \/ t.messages = "partialMessages" /\ key \in {MsgBindError, MsgBindErrorDetail}

(* C11: Translate never fails.  For a key of the package the template is   *)
(* the receiver's table entry when the table holds the key and the default *)
(* (zh) entry otherwise; without arguments the template is returned as it  *)
(* is (verbs included), with arguments the i-th verb is replaced by the    *)
(* i-th argument.  A key no table holds yields the empty template.         *)
C11_TranslateFallback ==
    fnOut.called =>
        LET t == fnIn.t
            key == fnIn.key
            args == fnIn.args
            tpl == IF key = MsgUnknown THEN <<>>
                   ELSE IF TableHolds(t, key)
                        THEN (CASE t.messages = "englishMessages" -> englishMessages[key]
                                [] t.messages = "partialMessages" -> partialMessages[key]
                                [] OTHER -> defaultMessages[key])
                        ELSE defaultMessages[key]
            n == Len(tpl)
        IN  /\ (args = <<>> => fnOut.msg = tpl)
            /\ (Len(args) = 1 /\ key \in {MsgBindErrorDetail, MsgPathBindError,
                                           MsgFieldValidationFailed} =>
                    fnOut.msg = SubSeq(tpl, 1, n - 1) \o args[1])
            /\ (Len(args) = 2 /\ key = MsgFieldValidationFailedWithParam =>
                    fnOut.msg = <<tpl[1], tpl[2]>> \o args[1] \o <<"=">> \o args[2])
            /\ (Len(args) = 2 /\ key = MsgFieldParseFailed =>
                    fnOut.msg = <<tpl[1]>> \o args[1] \o <<tpl[3], tpl[4]>> \o args[2])
            /\ (Len(args) = 2 /\ key = MsgFieldTypeNotSupported =>
                    fnOut.msg = <<tpl[1]>> \o args[1] \o <<tpl[3]>> \o args[2] \o <<tpl[5]>>)
            /\ (Len(args) = 1 /\ key = MsgFieldParseFailed =>
                    fnOut.msg = <<tpl[1]>> \o args[1] \o <<tpl[3], tpl[4], "%!", "v", "(MISSING)">>)

C11_Witness ==
    /\ fnOut.called
    /\ fnIn.t.messages = "partialMessages"
    /\ fnIn.key = MsgPathBindError
    /\ fnIn.args = <<<<"EOF">>>>
    /\ fnOut.msg = <<"lujing canshu bangding shibai", ": ", "EOF">>

-----------------------------------------------------------------------------
(* Direct calls of the BizError constructors.  fnIn is the caller's side:  *)
(* the arguments and the memory the errs slice points into.  A slice       *)
(* header holds the addresses of its elements, so that a copy of the       *)
(* header shares them; heap is the content of each address.  fnOut is the  *)
(* constructed error, what its accessors returned right after              *)
(* construction, and the slice a later call of Errors() returned.          *)

Cells == [i \in 1..MaxErrs |-> i]
InitialHeap == [c \in 1..MaxErrs |-> IF c = 1 THEN "name required" ELSE "age min 18"]

(* the elements a slice shows under a heap *)
Elems(heap, sl) == [i \in 1..len(sl) |-> heap[sl.elems[i]]]

Presets ==
    {"ErrBadRequest", "ErrUnauthorized", "ErrForbidden", "ErrNotFound", "ErrConflict",
     "ErrInternalServer"}

Preset(name, code, msg) ==
    CASE name = "ErrBadRequest" -> ErrBadRequest(code, msg)
      [] name = "ErrUnauthorized" -> ErrUnauthorized(code, msg)
      [] name = "ErrForbidden" -> ErrForbidden(code, msg)
      [] name = "ErrNotFound" -> ErrNotFound(code, msg)
      [] name = "ErrConflict" -> ErrConflict(code, msg)
      [] name = "ErrInternalServer" -> ErrInternalServer(code, msg)

(* What the four accessors of e return, Errors() with its elements *)
Observe(e, heap) ==
    [code |-> Code(e), message |-> Error(e), httpCode |-> HTTPCode(e),
     nil |-> Errors(e).nil, errors |-> Elems(heap, Errors(e))]

BizCodes == {IntCode(40000), StrCode("VALIDATION_ERROR")}
BizMessages == {<<>>, <<"id required">>}
BizStatuses == {StatusBadRequest, 422}
ErrSlices ==
    {NilSlice} \cup {MkSlice(SubSeq(Cells, 1, n)) : n \in 0..MaxErrs}

NoBizOut ==
    [stage |-> "none", ctor |-> "", err |-> NilError, arg |-> NilSlice,
     made |-> Observe(NilError, InitialHeap), got |-> NilSlice]

InitBizError ==
    /\ DefaultConfig = InitialDefaultConfig
    /\ config = InitialDefaultConfig @@ I18nUnset
    /\ handler = NoHandler
    /\ pc = [r \in Slots |-> "idle"]
    /\ input = [r \in Slots |-> NoInput]
    /\ req = [r \in Slots |-> <<>>]
    /\ result = [r \in Slots |-> NoResult]
    /\ calls = [r \in Slots |-> NoCalls]
    /\ written = [r \in Slots |-> <<>>]
    /\ logged = [r \in Slots |-> <<>>]
    /\ fnIn \in [code : BizCodes, message : BizMessages, httpCode : BizStatuses,
                  errs : ErrSlices, heap : {InitialHeap}]
    /\ fnOut = NoBizOut

Built(ctor, e) ==
    [NoBizOut EXCEPT !.stage = "built", !.ctor = ctor, !.err = e, !.arg = fnIn.errs,
                     !.made = Observe(e, fnIn.heap)]

CallNewBizError ==
    /\ fnOut.stage = "none"
    /\ fnOut' = Built("NewBizError", NewBizError(fnIn.code, fnIn.message, fnIn.httpCode))
    /\ UNCHANGED <<handlerVars, fnIn>>

CallNewBizErrorWithDetails ==
    /\ fnOut.stage = "none"
    /\ fnOut' = Built("NewBizErrorWithDetails",
                      NewBizErrorWithDetails(fnIn.code, fnIn.message, fnIn.httpCode,
                                             fnIn.errs))
    /\ UNCHANGED <<handlerVars, fnIn>>

CallPreset(name) ==
    /\ fnOut.stage = "none"
    /\ fnOut' = Built(name, Preset(name, fnIn.code, fnIn.message))
    /\ UNCHANGED <<handlerVars, fnIn>>

(* got := e.Errors() *)
CallErrors ==
    /\ fnOut.stage = "built"
    /\ fnOut' = [fnOut EXCEPT !.stage = "read", !.got = Errors(fnOut.err)]
    /\ UNCHANGED <<handlerVars, fnIn>>

(* errs[i] = "changed", by the caller that passed errs *)
CallerWritesErrs(i) ==
    /\ fnOut.stage # "none"
    /\ i \in 1..len(fnIn.errs)
    /\ fnIn.heap[fnIn.errs.elems[i]] # "changed"
    /\ fnIn' = [fnIn EXCEPT !.heap[fnIn.errs.elems[i]] = "changed"]
    /\ UNCHANGED <<handlerVars, fnOut>>

(* got[i] = "changed", by the caller that called Errors() *)
CallerWritesReturned(i) ==
    /\ fnOut.stage = "read"
    /\ i \in 1..len(fnOut.got)
    /\ fnIn.heap[fnOut.got.elems[i]] # "changed"
    /\ fnIn' = [fnIn EXCEPT !.heap[fnOut.got.elems[i]] = "changed"]
    /\ UNCHANGED <<handlerVars, fnOut>>

(* errs = nil, by the caller that passed errs *)
CallerDropsErrs ==
    /\ fnOut.stage # "none"
    /\ ~fnIn.errs.nil
    /\ fnIn' = [fnIn EXCEPT !.errs = NilSlice]
    /\ UNCHANGED <<handlerVars, fnOut>>

NextBizError ==
    \/ CallNewBizError
    \/ CallNewBizErrorWithDetails
    \/ \E name \in Presets : CallPreset(name)
    \/ CallErrors
    \/ \E i \in 1..MaxErrs : CallerWritesErrs(i)
    \/ \E i \in 1..MaxErrs : CallerWritesReturned(i)
    \/ CallerDropsErrs

SpecBizError == InitBizError /\ [][NextBizError]_vars

(* C12: whatever the code and the message, a preset constructor returns a  *)
(* business error with its fixed HTTP status (400, 401, 403, 404, 409,     *)
(* 500) whose Code() and Error() are the supplied code and message.        *)
C12_PresetStatus ==
    (fnOut.stage # "none" /\ fnOut.ctor \in Presets) =>
        /\ fnOut.err.biz
        /\ HTTPCode(fnOut.err) =
              (CASE fnOut.ctor = "ErrBadRequest" -> 400
                 [] fnOut.ctor = "ErrUnauthorized" -> 401
                 [] fnOut.ctor = "ErrForbidden" -> 403
                 [] fnOut.ctor = "ErrNotFound" -> 404
                 [] fnOut.ctor = "ErrConflict" -> 409
                 [] fnOut.ctor = "ErrInternalServer" -> 500)
        /\ Code(fnOut.err) = fnIn.code
        /\ Error(fnOut.err) = fnIn.message

C12_Witness ==
    /\ fnOut.stage = "built" /\ fnOut.ctor = "ErrConflict"
    /\ fnIn.code = StrCode("VALIDATION_ERROR") /\ fnIn.message = <<>>
    /\ HTTPCode(fnOut.err) = 409

(* C13: NewBizError returns an error whose Errors() is nil, and            *)
(* NewBizErrorWithDetails one whose Errors() is the errs it was given: the *)
(* same elements in the same order, nil for nil and empty for empty; both  *)
(* return the supplied code, message and status from Code(), Error() and   *)
(* HTTPCode().                                                             *)
C13_ConstructorsKeepArguments ==
    (fnOut.stage # "none" /\ fnOut.ctor \in {"NewBizError", "NewBizErrorWithDetails"}) =>
        /\ Code(fnOut.err) = fnIn.code
        /\ Error(fnOut.err) = fnIn.message
        /\ HTTPCode(fnOut.err) = fnIn.httpCode
        /\ (fnOut.ctor = "NewBizError" =>
                Errors(fnOut.err).nil /\ len(Errors(fnOut.err)) = 0)
        /\ (fnOut.ctor = "NewBizErrorWithDetails" =>
                /\ Errors(fnOut.err).nil = fnOut.arg.nil
                /\ len(Errors(fnOut.err)) = len(fnOut.arg)
                /\ fnOut.made.errors = Elems(InitialHeap, fnOut.arg)
                /\ \A i \in 1..len(fnOut.arg) :
                      Errors(fnOut.err).elems[i] = fnOut.arg.elems[i])

C13_Witness ==
    /\ fnOut.stage = "built" /\ fnOut.ctor = "NewBizErrorWithDetails"
    /\ len(fnOut.arg) = 2
    /\ fnOut.made.errors = <<"name required", "age min 18">>

(* C14: once a business error is constructed, nothing the caller does      *)
(* changes what Code(), Error(), HTTPCode() and Errors() return.           *)
C14_ImmutableOnceConstructed ==
    fnOut.stage # "none" => Observe(fnOut.err, fnIn.heap) = fnOut.made

-----------------------------------------------------------------------------
(* Route registration on its own: Handler(handleFunc, opts...) with the    *)
(* options of the source, two values for each field.  fnIn records the     *)
(* call: the request type, the options in order and the DefaultConfig the  *)
(* call read.                                                              *)

RegisterOptions ==
    {WithSuccessCode(StrCode("OK")), WithSuccessCode(IntCode(1)),
     WithSuccessHTTPCode(201), WithSuccessHTTPCode(202),
     WithBindErrorCode(IntCode(40000)), WithBindErrorCode(StrCode("BIND_ERROR")),
     WithRequestLogger("logRequest"), WithRequestLogger("auditRequest")}

NoRegistration ==
    [via |-> "", T |-> "", opts |-> <<>>, default |-> InitialDefaultConfig,
     given |-> InitialDefaultConfig @@ I18nUnset]

InitRegister ==
    /\ DefaultConfig = InitialDefaultConfig
    /\ config = InitialDefaultConfig @@ I18nUnset
    /\ handler = NoHandler
    /\ pc = [r \in Slots |-> "idle"]
    /\ input = [r \in Slots |-> NoInput]
    /\ req = [r \in Slots |-> <<>>]
    /\ result = [r \in Slots |-> NoResult]
    /\ calls = [r \in Slots |-> NoCalls]
    /\ written = [r \in Slots |-> <<>>]
    /\ logged = [r \in Slots |-> <<>>]
    /\ fnIn = NoRegistration
    /\ fnOut = NoOut

CallHandler(T, opts) ==
    /\ ~handler.registered
    /\ config' = HandlerConfigOf(DefaultConfig, opts)
    /\ handler' = HandlerWithConfig(T, config')
    /\ fnIn' = [via |-> "Handler", T |-> T, opts |-> opts, default |-> DefaultConfig,
                given |-> config']
    /\ UNCHANGED <<DefaultConfig, pc, input, req, result, calls, written, logged, fnOut>>

NextRegister ==
    \/ SetDefaultConfig
    \/ \E T \in ReqTypes, opts \in SeqsUpTo(RegisterOptions, MaxOpts) : CallHandler(T, opts)

SpecRegister == InitRegister /\ [][NextRegister]_vars

(* the positions of the options that set a field *)
Setters(opts, name) == {i \in 1..Len(opts) : opts[i].name = name}
Last(S) == CHOOSE i \in S : \A j \in S : j <= i

(* C15: the configuration of a handler has, for each field, the value of   *)
(* the last option in the call that sets the field, and the value          *)
(* DefaultConfig had at the call when no option sets it; the handler uses  *)
(* these values.                                                           *)
C15_OptionsInOrder ==
    handler.registered =>
        LET opts == fnIn.opts
            d == fnIn.default
            sc == Setters(opts, "WithSuccessCode")
            sh == Setters(opts, "WithSuccessHTTPCode")
            bc == Setters(opts, "WithBindErrorCode")
            rl == Setters(opts, "WithRequestLogger")
        IN  /\ config.SuccessCode =
                  IF sc = {} THEN d.SuccessCode ELSE opts[Last(sc)].code
            /\ config.SuccessHTTPCode =
                  IF sh = {} THEN d.SuccessHTTPCode ELSE opts[Last(sh)].n
            /\ config.BindErrorCode =
                  IF bc = {} THEN d.BindErrorCode ELSE opts[Last(bc)].code
            /\ config.RequestLogger =
                  IF rl = {} THEN d.RequestLogger ELSE opts[Last(rl)].ref
            /\ handler.successCode = config.SuccessCode
            /\ handler.successHTTPCode = config.SuccessHTTPCode
            /\ handler.bindErrorCode = config.BindErrorCode
            /\ handler.requestLogger = config.RequestLogger

C15_Witness ==
    /\ handler.registered
    /\ fnIn.default = ReadmeDefaultConfig
    /\ fnIn.opts = <<WithSuccessCode(StrCode("OK")), WithSuccessCode(IntCode(1))>>
    /\ config.SuccessCode = IntCode(1)
    /\ config.BindErrorCode = IntCode(40000)

-----------------------------------------------------------------------------
(* Registration followed by requests, with the caller changing             *)
(* DefaultConfig, or the config object it gave to HandlerWithConfig, at    *)
(* any later time.  fnIn is the record of the registration call; its       *)
(* field given is the value the configuration had at that call.            *)

CustomConfig ==
    [SuccessCode |-> StrCode("SUCCESS"), SuccessHTTPCode |-> 201,
     BindErrorCode |-> IntCode(40000), RequestLogger |-> "logRequest"] @@ I18nUnset

GivenConfigs == {CustomConfig, InitialDefaultConfig @@ I18nUnset}

ConfigOptLists ==
    {<<>>, <<WithSuccessCode(StrCode("OK"))>>,
     <<WithBindErrorCode(StrCode("BIND_ERROR")), WithRequestLogger("logRequest")>>}

(* HandlerWithConfig(handleFunc, c) for a config object c of the caller *)
CallHandlerWithConfig(T, c) ==
    /\ ~handler.registered
    /\ config' = c
    /\ handler' = HandlerWithConfig(T, c)
    /\ fnIn' = [via |-> "HandlerWithConfig", T |-> T, opts |-> <<>>,
                default |-> DefaultConfig, given |-> c]
    /\ UNCHANGED <<DefaultConfig, pc, input, req, result, calls, written, logged, fnOut>>

LateConfig ==
    [SuccessCode |-> IntCode(7), SuccessHTTPCode |-> 202,
     BindErrorCode |-> StrCode("LATE"), RequestLogger |-> "nil"] @@ I18nUnset

(* config.SuccessCode = 7; ... on the object given to HandlerWithConfig *)
MutateConfig ==
    /\ handler.registered
    /\ fnIn.via = "HandlerWithConfig"
    /\ config # LateConfig
    /\ config' = LateConfig
    /\ UNCHANGED <<DefaultConfig, handler, pc, input, req, result, calls, written, logged,
                   fnIn, fnOut>>

NextConfig ==
    \/ SetDefaultConfig
    \/ \E opts \in ConfigOptLists : CallHandler("testRequest", opts)
    \/ \E c \in GivenConfigs : CallHandlerWithConfig("testRequest", c)
    \/ MutateConfig
    \/ \E r \in Slots :
        \/ \E in \in Inputs(handler.T) : Serve(r, in)
        \/ \E v \in BoundValues(handler.T) : ShouldBindOk(r, v)
        \/ \E e \in BindErrors : ShouldBindFails(r, e)
        \/ BindPath(r)
        \/ LogRequest(r)
        \/ \E out \in BizResults(req[r]) : CallHandleFunc(r, out)
        \/ WriteSuccess(r)
        \/ Finish(r)

SpecConfig == InitRegister /\ [][NextConfig]_vars

(* C16: a handler's configuration is fixed at registration.  No step       *)
(* changes DefaultConfig and the registered handler together, so Handler   *)
(* leaves DefaultConfig alone and a change of DefaultConfig leaves the     *)
(* handler alone; every envelope of the handler carries the success        *)
(* status, success code and bind-error code the configuration had at       *)
(* registration, whatever DefaultConfig and the given config object hold   *)
(* at the time of the request, and the logger runs exactly if one was set  *)
(* at registration; a handler registered by Handler without options has    *)
(* the values DefaultConfig had at that call.                              *)
C16_Inv ==
    handler.registered =>
        /\ (fnIn.via = "Handler" /\ fnIn.opts = <<>> =>
                /\ fnIn.given.SuccessCode = fnIn.default.SuccessCode
                /\ fnIn.given.SuccessHTTPCode = fnIn.default.SuccessHTTPCode
                /\ fnIn.given.BindErrorCode = fnIn.default.BindErrorCode)
        /\ \A r \in Slots :
              /\ (pc[r] = "done" /\ BizSucceeded(r)) =>
                    written[r] = <<[status |-> fnIn.given.SuccessHTTPCode,
                                    body |-> [code |-> fnIn.given.SuccessCode,
                                              data |-> result[r].resp]]>>
              /\ (pc[r] = "done" /\ (BindFailed(r) \/ PathFailed(r))) =>
                    /\ Len(written[r]) = 1
                    /\ written[r][1].body.code = fnIn.given.BindErrorCode
              /\ (pc[r] \in {"biz", "success"} =>
                    (calls[r].log = 1) = (fnIn.given.RequestLogger # "nil"))

C16_FixedAtRegistration ==
    /\ []C16_Inv
    /\ [][handler' # handler => DefaultConfig' = DefaultConfig]_vars

C16_Witness ==
    \E r \in Slots :
        /\ Responded(r) /\ BizSucceeded(r)
        /\ fnIn.via = "HandlerWithConfig"
        /\ fnIn.given = CustomConfig
        /\ config = LateConfig
        /\ DefaultConfig = ReadmeDefaultConfig
        /\ Envelope(r).body.code = StrCode("SUCCESS")

-----------------------------------------------------------------------------
(* Direct calls of bindPathParams(c, req): fnIn is the request type, the   *)
(* path parameters of the route and the value req points to (as            *)
(* c.ShouldBind left it); fnOut the returned error and req afterwards.     *)

BindTypes == ReqTypes \cup {"countRequest", "mixedRequest", "nestedRequest"}

PlusFive == <<"+", "5">>
ZeroZeroSeven == <<"0", "0", "7">>
MaxInt64Text ==
    <<"9","2","2","3","3","7","2","0","3","6","8","5","4","7","7","5","8","0","7">>
MinInt64Text == <<"-">> \o Cutoff63Text
BelowMinInt64Text ==
    <<"-","9","2","2","3","3","7","2","0","3","6","8","5","4","7","7","5","8","0","9">>
AboveMaxUint64Text ==
    <<"1","8","4","4","6","7","4","4","0","7","3","7","0","9","5","5","1","6","1","6">>

IntTexts ==
    {Absent, Seven, Abc, MinusFive, PlusFive, ZeroZeroSeven, MaxInt64Text, Cutoff63Text,
     MinInt64Text, BelowMinInt64Text}
UintTexts ==
    {Absent, Seven, Abc, MinusFive, PlusFive, ZeroZeroSeven, Cutoff63Text, MaxUint64Text,
     AboveMaxUint64Text}

(* a route without path parameters: c.Param returns "" for every name *)
NoParams == <<>>

BindParamSets(T) ==
    {NoParams} \cup
    (CASE T = "testRequest" -> {[id |-> x] : x \in IntTexts}
       [] T = "ownerRequest" ->
            {[owner |-> x, slug |-> y, id |-> Seven] : x \in UintTexts, y \in {Absent, Abc}}
       [] T = "flagRequest" ->
            {[slug |-> x, flag |-> y] : x \in {Absent, Abc}, y \in {Absent, Seven}}
       [] T = "countRequest" ->
            {[count |-> x, id |-> y] : x \in {Absent, Seven}, y \in {Absent, Seven, Abc}}
       [] T = "mixedRequest" ->
            {[id |-> x, ratio |-> y, tags |-> z] :
                x \in {Seven, Abc}, y \in {Absent, <<"1", ".", "5">>}, z \in {Absent, Abc}}
       [] T = "nestedRequest" ->
            {[flag |-> x, small |-> y, inner |-> z] :
                x \in {Absent, Seven}, y \in {Absent, Seven}, z \in {Absent, Abc}})

(* a field value other than the zero value, as an earlier binder left it *)
BoundOf(kind) ==
    CASE kind = "string" -> <<"p", "r", "e">>
      [] kind = "bool" -> <<"true">>
      [] kind = "slice" -> <<"[x]">>
      [] kind = "struct" -> <<"{x}">>
      [] OTHER -> <<"4", "2">>

PreBound(T) == {New(T), [n \in FieldNames(T) |-> BoundOf(FieldOf(T, n).kind)]}

InitPathBind ==
    /\ DefaultConfig = InitialDefaultConfig
    /\ config = InitialDefaultConfig @@ I18nUnset
    /\ handler = NoHandler
    /\ pc = [r \in Slots |-> "idle"]
    /\ input = [r \in Slots |-> NoInput]
    /\ req = [r \in Slots |-> <<>>]
    /\ result = [r \in Slots |-> NoResult]
    /\ calls = [r \in Slots |-> NoCalls]
    /\ written = [r \in Slots |-> <<>>]
    /\ logged = [r \in Slots |-> <<>>]
    /\ \E T \in BindTypes :
          \E ps \in BindParamSets(T), v \in PreBound(T) :
              fnIn = [T |-> T, params |-> ps, v |-> v]
    /\ fnOut = [called |-> FALSE, err |-> NilError, req |-> <<>>]

CallBindPathParams ==
    /\ ~fnOut.called
    /\ LET b == bindPathParams(fnIn.T, fnIn.params, fnIn.v)
       IN  fnOut' = [called |-> TRUE, err |-> b.err, req |-> b.req]
    /\ UNCHANGED <<handlerVars, fnIn>>

NextPathBind == CallBindPathParams

SpecPathBind == InitPathBind /\ [][NextPathBind]_vars

(* What the claims expect of a text, written out case by case: the value   *)
(* a base-10 text denotes within the range of the kind, or Invalid.        *)
Invalid == <<"?">>

Int64Value(text) ==
    CASE text \in {Seven, ZeroZeroSeven} -> <<"7">>
      [] text = PlusFive -> <<"5">>
      [] text \in {MinusFive, MaxInt64Text, MinInt64Text} -> text
      [] OTHER -> Invalid

Uint64Value(text) ==
    CASE text \in {Seven, ZeroZeroSeven} -> <<"7">>
      [] text \in {Cutoff63Text, MaxUint64Text} -> text
      [] OTHER -> Invalid

PathFields == Fields(fnIn.T)
PathValue(i) ==
    IF PathFields[i].path \in DOMAIN fnIn.params
    THEN fnIn.params[PathFields[i].path] ELSE <<>>
Tagged(i) == PathFields[i].path # ""

(* the error bindPathParams returned is a field-parse failure naming f *)
ParseFailureOf(f) ==
    /\ ~fnOut.err.isNil
    /\ Len(fnOut.err.message) >= 3
    /\ fnOut.err.message[1] = "ziduan "
    /\ fnOut.err.message[2] = f.name
    /\ fnOut.err.message[3] = " jiexi shibai"

(* ... a field-type-unsupported failure naming f and its kind *)
TypeFailureOf(f) ==
    /\ ~fnOut.err.isNil
    /\ fnOut.err.message =
          <<"ziduan ", f.name, " de leixing ", f.kind, " bu zhichi lujing bangding">>

(* the binder got as far as the i-th field: no earlier field failed *)
Reached(i) ==
    \/ fnOut.err.isNil
    \/ \E j \in i..Len(PathFields) : fnOut.err.message[2] = PathFields[j].name

(* what the claim says of field i, given a non-empty path value *)
ConvertsField(i) ==
    LET f == PathFields[i]
        text == PathValue(i)
        value == IF f.kind = "int64" THEN Int64Value(text) ELSE Uint64Value(text)
    IN  /\ (f.kind = "string" => fnOut.req[f.name] = text /\ ~ParseFailureOf(f))
        /\ (f.kind \in {"int64", "uint64"} /\ value # Invalid =>
                fnOut.req[f.name] = value /\ ~ParseFailureOf(f))
        /\ (f.kind \in {"int64", "uint64"} /\ value = Invalid =>
                ParseFailureOf(f) /\ fnOut.req[f.name] = fnIn.v[f.name])

(* C17, as claimed: every path-tagged field with a non-empty path value    *)
(* is converted: a string field holds the raw value, an int64 / uint64     *)
(* field holds the number when the text is a base-10 integer in range,     *)
(* and every other text fails the binding with a parse failure naming the  *)
(* field.                                                                  *)
C17_ConvertsEveryTaggedField ==
    fnOut.called =>
        \A i \in 1..Len(PathFields) :
            (Tagged(i) /\ PathValue(i) # <<>>
               /\ PathFields[i].kind \in {"string", "int64", "uint64"}) => ConvertsField(i)

(* C17, amended: the same for every exported path-tagged field with a      *)
(* non-empty path value that the binder reaches, that is, when no field    *)
(* declared before it has failed.                                          *)
C17_ConvertsReachedSettableField ==
    fnOut.called =>
        \A i \in 1..Len(PathFields) :
            (Tagged(i) /\ PathValue(i) # <<>> /\ PathFields[i].exported /\ Reached(i)
               /\ PathFields[i].kind \in {"string", "int64", "uint64"}) => ConvertsField(i)

C17_Witness ==
    /\ fnOut.called
    /\ fnIn.T = "ownerRequest"
    /\ fnIn.params # NoParams
    /\ fnIn.params.owner = MaxUint64Text
    /\ fnIn.params.slug = Abc
    /\ fnOut.err.isNil
    /\ fnOut.req.Owner = MaxUint64Text
    /\ fnOut.req.Slug = Abc

(* C18: a path-tagged field whose path parameter is absent or empty keeps  *)
(* the value it had before path binding, and no error is reported for it.  *)
C18_AbsentIsNoOp ==
    fnOut.called =>
        \A i \in 1..Len(PathFields) :
            (Tagged(i) /\ PathValue(i) = <<>>) =>
                /\ fnOut.req[PathFields[i].name] = fnIn.v[PathFields[i].name]
                /\ (~fnOut.err.isNil => fnOut.err.message[2] # PathFields[i].name)

C18_Witness ==
    /\ fnOut.called
    /\ fnIn.T = "testRequest"
    /\ fnIn.params = NoParams
    /\ fnIn.v.ID = <<"4", "2">>
    /\ fnOut.err.isNil
    /\ fnOut.req.ID = <<"4", "2">>

(* C19, as claimed: a field of a kind other than string, int64 and uint64  *)
(* that carries a non-empty path tag makes the binding fail with a         *)
(* type-unsupported failure naming the field and its kind, and the field   *)
(* is not assigned.                                                        *)
C19_UnsupportedKindAlwaysFails ==
    fnOut.called =>
        \A i \in 1..Len(PathFields) :
            (Tagged(i) /\ PathFields[i].kind \notin {"string", "int64", "uint64"}) =>
                /\ TypeFailureOf(PathFields[i])
                /\ fnOut.req[PathFields[i].name] = fnIn.v[PathFields[i].name]

(* C19, amended: such a field makes the binding fail in that way when it   *)
(* is exported, its path parameter is present and non-empty, and no field  *)
(* declared before it has failed; whether or not the binding fails, the    *)
(* field is never assigned.                                                *)
C19_UnsupportedKindFailsWhenBound ==
    fnOut.called =>
        \A i \in 1..Len(PathFields) :
            (Tagged(i) /\ PathFields[i].kind \notin {"string", "int64", "uint64"}) =>
                /\ fnOut.req[PathFields[i].name] = fnIn.v[PathFields[i].name]
                /\ (PathValue(i) # <<>> /\ PathFields[i].exported /\ Reached(i)) =>
                      TypeFailureOf(PathFields[i])

C19_Witness ==
    /\ fnOut.called
    /\ fnIn.T = "mixedRequest"
    /\ fnIn.params # NoParams
    /\ fnIn.params.id = Seven
    /\ fnIn.params.ratio = Absent
    /\ fnIn.params.tags = Abc
    /\ fnOut.req.ID = Seven
    /\ fnOut.err.message =
          <<"ziduan ", "Tags", " de leixing ", "slice", " bu zhichi lujing bangding">>

-----------------------------------------------------------------------------
(* C20: an error envelope has the errors key only for a non-empty          *)
(* sub-error sequence: for a nil and for an empty non-nil sequence the key *)
(* is left out, and no envelope carries an empty errors list; a success    *)
(* envelope has neither a message nor an errors key.                       *)
C20_ErrorsOmittedWhenEmpty ==
    \A r \in Slots :
        /\ \A i \in 1..Len(written[r]) :
              "errors" \in DOMAIN written[r][i].body =>
                  Len(written[r][i].body.errors) > 0
        /\ (pc[r] = "done" /\ BizFailed(r)) =>
              /\ Len(written[r]) = 1
              /\ ("errors" \in DOMAIN written[r][1].body) =
                    (result[r].err.biz /\ Len(result[r].err.errors.elems) > 0)
        /\ (pc[r] = "done" /\ BizSucceeded(r)) =>
              /\ Len(written[r]) = 1
              /\ "message" \notin DOMAIN written[r][1].body
              /\ "errors" \notin DOMAIN written[r][1].body

C20_Witness ==
    \E r \in Slots :
        /\ Responded(r) /\ BizFailed(r) /\ result[r].err.biz
        /\ ~result[r].err.errors.nil
        /\ result[r].err.errors.elems = <<>>
        /\ DOMAIN Envelope(r).body = {"code", "message"}

-----------------------------------------------------------------------------
(* The order of the steps of one request.  PathText is the path parameter  *)
(* of a field as the route delivered it; AfterBinding what the claim       *)
(* expects in a field once both bindings have succeeded.                   *)

PathText(r, f) ==
    IF f.path \in DOMAIN input[r].params THEN input[r].params[f.path] ELSE <<>>

AfterBinding(r, f) ==
    LET text == PathText(r, f)
    IN  IF f.path = "" \/ text = <<>> \/ ~f.exported
        THEN result[r].bound[f.name]
        ELSE CASE f.kind = "string" -> text
               [] f.kind = "int64" -> Int64Value(text)
               [] f.kind = "uint64" -> Uint64Value(text)
               [] OTHER -> Invalid

LoggerConfigured == handler.requestLogger # "nil"

BothBound(r) == calls[r].path = 1 /\ ~PathFailed(r)

C21_Inv ==
    \A r \in Slots :
        /\ calls[r].bind <= 1 /\ calls[r].path <= 1
        /\ calls[r].log <= 1 /\ calls[r].biz <= 1
        /\ Len(logged[r]) = calls[r].log
        /\ calls[r].path = 1 => (calls[r].bind = 1 /\ ~BindFailed(r))
        /\ calls[r].log = 1 => (BothBound(r) /\ LoggerConfigured /\ logged[r] = <<req[r]>>)
        /\ calls[r].biz = 1 =>
              /\ BothBound(r)
              /\ calls[r].log = (IF LoggerConfigured THEN 1 ELSE 0)
              /\ result[r].arg = req[r]
              /\ LoggerConfigured => logged[r] = <<result[r].arg>>
        /\ BothBound(r) =>
              \A i \in 1..Len(Fields(handler.T)) :
                  req[r][Fields(handler.T)[i].name] = AfterBinding(r, Fields(handler.T)[i])
        /\ \A i \in 1..Len(written[r]) :
              IsSuccessEnvelope(written[r][i]) => calls[r].biz = 1

C21_Step ==
    \A r \in Slots :
        /\ calls'[r].bind > calls[r].bind => (calls[r] = NoCalls /\ written[r] = <<>>)
        /\ calls'[r].path > calls[r].path =>
              /\ calls[r].bind = 1 /\ calls[r].log = 0 /\ calls[r].biz = 0
              /\ written[r] = <<>>
              /\ req[r] = result[r].bound
        /\ calls'[r].log > calls[r].log =>
              /\ calls[r].path = 1 /\ calls[r].log = 0 /\ calls[r].biz = 0
              /\ written[r] = <<>>
              /\ logged'[r] = <<req[r]>>
        /\ calls'[r].biz > calls[r].biz =>
              /\ calls[r].path = 1 /\ written[r] = <<>>
              /\ LoggerConfigured => (calls[r].log = 1 /\ logged[r] = <<req[r]>>)
              /\ result'[r].arg = req[r]
        /\ Len(written'[r]) > Len(written[r]) =>
              /\ written[r] = <<>>
              /\ IsSuccessEnvelope(written'[r][1]) => calls[r].biz = 1
        /\ (written[r] # <<>> /\ written'[r] # <<>>) =>
              (calls'[r] = calls[r] /\ req'[r] = req[r] /\ logged'[r] = logged[r])

(* C21: within one request the steps run in the order generic bind, path   *)
(* bind, request logger, business function, response.  Path binding works  *)
(* on the value generic binding filled: after both bindings a settable     *)
(* field with a non-empty path parameter holds the converted parameter,    *)
(* whatever generic binding put there, and every other field holds what    *)
(* generic binding left.  A configured request logger runs exactly once,   *)
(* after both bindings succeeded and before the business function, and     *)
(* receives the value the business function receives; nothing runs once    *)
(* the response is written.                                                *)
C21_StepOrder == []C21_Inv /\ [][C21_Step]_vars

C21_Witness ==
    \E r \in Slots :
        /\ Responded(r) /\ BizSucceeded(r)
        /\ handler.T = "testRequest"
        /\ LoggerConfigured
        /\ input[r].params.id = Seven
        /\ result[r].bound.ID = <<"5">>
        /\ result[r].bound.Name = <<"b", "o", "b">>
        /\ req[r].ID = <<"7">>
        /\ req[r].Name = <<"b", "o", "b">>
        /\ logged[r] = <<req[r]>>
        /\ result[r].arg = req[r]
        /\ IsSuccessEnvelope(Envelope(r))

-----------------------------------------------------------------------------
(* The order in which bindPathParams visits the fields.  FailsAlone says   *)
(* that field i, taken by itself, cannot be bound from its path value.     *)

FailsAlone(i) ==
    LET f == PathFields[i]
    IN  /\ Tagged(i) /\ PathValue(i) # <<>> /\ f.exported
        /\ \/ f.kind \notin {"string", "int64", "uint64"}
           \/ f.kind = "int64" /\ Int64Value(PathValue(i)) = Invalid
           \/ f.kind = "uint64" /\ Uint64Value(PathValue(i)) = Invalid

FailingFields == {i \in 1..Len(PathFields) : FailsAlone(i)}

FirstFailing == CHOOSE i \in FailingFields : \A j \in FailingFields : i <= j

Kept(i) == fnOut.req[PathFields[i].name] = fnIn.v[PathFields[i].name]

(* C22: path binding visits the fields in declared order and stops at the  *)
(* first failure: the binding fails exactly when some field cannot be      *)
(* bound, the reported failure names the earliest declared such field,     *)
(* that field and every field declared after it keep their values, and     *)
(* every settable field declared before it with a non-empty path value has *)
(* been assigned.                                                          *)
C22_FirstDeclaredFailureWins ==
    fnOut.called =>
        IF FailingFields = {}
        THEN fnOut.err.isNil
        ELSE /\ \/ ParseFailureOf(PathFields[FirstFailing])
                \/ TypeFailureOf(PathFields[FirstFailing])
             /\ \A j \in FirstFailing..Len(PathFields) : Kept(j)
             /\ \A j \in 1..(FirstFailing - 1) :
                   (Tagged(j) /\ PathValue(j) # <<>> /\ PathFields[j].exported) =>
                       ConvertsField(j)

C22_Witness ==
    /\ fnOut.called
    /\ fnIn.T = "mixedRequest"
    /\ fnIn.params # NoParams
    /\ fnIn.params.id = Seven
    /\ fnIn.params.ratio = <<"1", ".", "5">>
    /\ fnIn.params.tags = Abc
    /\ fnIn.v.ID = <<"4", "2">>
    /\ FailingFields = {2, 3}
    /\ fnOut.req.ID = Seven
    /\ TypeFailureOf(PathFields[2])
    /\ fnOut.req.Tags = <<"[x]">>

-----------------------------------------------------------------------------
(* Requests in flight at the same time: gin runs the closure once per      *)
(* request, each activation on its own goroutine with its own c and req.   *)
(* The route is registered once; the caller may still write DefaultConfig. *)

IsolationOptLists == {<<>>, <<WithRequestLogger("logRequest")>>}

IsolationInputs ==
    {in \in Inputs("testRequest") :
        in.header = <<>> /\ in.params.id \in {Absent, Seven, Abc}}

ServeConcurrently_sharedReq(r, in) ==
    /\ handler.registered
    /\ pc[r] = "idle"
    /\ pc' = [pc EXCEPT ![r] = "bind"]
    /\ input' = [input EXCEPT ![r] = in]
    /\ req' = [s \in Slots |-> New(handler.T)]
    /\ result' = [result EXCEPT ![r] = NoResult]
    /\ calls' = [calls EXCEPT ![r] = NoCalls]
    /\ written' = [written EXCEPT ![r] = <<>>]
    /\ logged' = [logged EXCEPT ![r] = <<>>]
    /\ UNCHANGED <<DefaultConfig, config, handler, fnIn, fnOut>>

(* gin dispatches a request while others may be in flight: req := new(T) *)
ServeConcurrently(r, in) ==
    /\ handler.registered
    /\ pc[r] = "idle"
    /\ pc' = [pc EXCEPT ![r] = "bind"]
    /\ input' = [input EXCEPT ![r] = in]
    /\ req' = [req EXCEPT ![r] = New(handler.T)]
    /\ result' = [result EXCEPT ![r] = NoResult]
    /\ calls' = [calls EXCEPT ![r] = NoCalls]
    /\ written' = [written EXCEPT ![r] = <<>>]
    /\ logged' = [logged EXCEPT ![r] = <<>>]
    /\ UNCHANGED <<DefaultConfig, config, handler, fnIn, fnOut>>

NextIsolation ==
    \/ SetDefaultConfig
    \/ \E opts \in IsolationOptLists : CallHandler("testRequest", opts)
    \/ \E r \in Slots :
        \/ \E in \in IsolationInputs : ServeConcurrently(r, in)
        \/ \E v \in BoundValues(handler.T) : ShouldBindOk(r, v)
        \/ \E e \in BindErrors : ShouldBindFails(r, e)
        \/ BindPath(r)
        \/ LogRequest(r)
        \/ \E out \in BizResults(req[r]) : CallHandleFunc(r, out)
        \/ WriteSuccess(r)
        \/ Finish(r)

SpecIsolation == InitRegister /\ [][NextIsolation]_vars

(* What a request is made of: what the client sent (header, path           *)
(* parameters and, as the outcome of c.ShouldBind, the body).              *)
SameInput(r, s) ==
    /\ input[r] = input[s]
    /\ result[r].bound = result[s].bound
    /\ result[r].bindErr = result[s].bindErr

(* The business function is deterministic: the same argument, the same     *)
(* (resp, err).                                                            *)
SameBizResult(r, s) ==
    (calls[r].biz = 1 /\ calls[s].biz = 1 /\ result[r].arg = result[s].arg) =>
        (result[r].resp = result[s].resp /\ result[r].err = result[s].err)

(* everything the closure holds for request r *)
Activation(r) == <<pc[r], input[r], req[r], result[r], calls[r], written[r], logged[r]>>

C23_Inv ==
    \A r \in Slots :
        /\ pc[r] = "bind" => req[r] = New(handler.T)
        /\ \A s \in Slots :
              (pc[r] # "idle" /\ pc[r] = pc[s] /\ SameInput(r, s) /\ SameBizResult(r, s)) =>
                  Activation(r) = Activation(s)

C23_Step ==
    \A r \in Slots :
        Activation(r)' # Activation(r) =>
            /\ \A s \in Slots \ {r} : Activation(s)' = Activation(s)
            /\ handler' = handler
            /\ DefaultConfig' = DefaultConfig

(* C23: what a request binds and writes depends only on its own input, the *)
(* configuration captured at registration and the business function's      *)
(* result.  Two requests through the same handler with the same input and  *)
(* a deterministic business function are in the same state at every step,  *)
(* and so write the same status and body, whatever the other request is    *)
(* and however the two are interleaved, and whatever DefaultConfig has     *)
(* become since; each request starts from its own new(T), and a step of    *)
(* one request changes nothing of the other.                               *)
C23_RequestIsolation == []C23_Inv /\ [][C23_Step]_vars

C23_Witness ==
    /\ \A r \in Slots : Responded(r) /\ BizSucceeded(r)
    /\ input["r1"] = input["r2"]
    /\ input["r1"].params.id = Seven
    /\ result["r1"].bound.Name = <<"b", "o", "b">>
    /\ SameInput("r1", "r2")
    /\ result["r1"].resp = Resp(req["r1"])
    /\ result["r2"].resp = Resp(req["r2"])
    /\ DefaultConfig = ReadmeDefaultConfig
    /\ Envelope("r1") = Envelope("r2")
    /\ Envelope("r1").status = StatusOK
    /\ Envelope("r1").body.data.v[1].ID = <<"7">>

-----------------------------------------------------------------------------
(* C24: the returned error decides.  When the business function returns a  *)
(* non-nil error, with or without a response, the request writes the error *)
(* envelope only and the response value appears nowhere in it; the success *)
(* envelope is written only for a nil error, and then also for a nil       *)
(* response, whose data is null.                                           *)
C24_ErrorDecides ==
    \A r \in Slots :
        /\ (calls[r].biz = 1 /\ BizFailed(r)) =>
              /\ pc[r] = "done"
              /\ Len(written[r]) = 1
              /\ IsErrorEnvelope(written[r][1])
              /\ "data" \notin DOMAIN written[r][1].body
        /\ (calls[r].biz = 1 /\ ~BizFailed(r)) =>
              /\ pc[r] \in {"success", "done"}
              /\ pc[r] = "success" => written[r] = <<>>
              /\ pc[r] = "done" =>
                    /\ Len(written[r]) = 1
                    /\ IsSuccessEnvelope(written[r][1])
                    /\ written[r][1].body.data = result[r].resp
        /\ \A i \in 1..Len(written[r]) :
              IsSuccessEnvelope(written[r][i]) => (calls[r].biz = 1 /\ ~BizFailed(r))

C24_Witness ==
    \E r \in Slots :
        /\ Responded(r)
        /\ ~result[r].resp.isNil
        /\ BizFailed(r)
        /\ Len(written[r]) = 1
        /\ Envelope(r).status = StatusInternalServerError
        /\ DOMAIN Envelope(r).body = {"code", "message"}

====
